---- MODULE Spec2Model ----
(***************************************************************************)
(* Dog-walking booking service: the Database methods of services/db.rs     *)
(* (create_owner, create_dog, create_booking, cancel_booking,              *)
(* get_bookings) and the request normalizer of models/booking_model.rs     *)
(* (TryFrom<BooKingRequest> for Booking), over the three MongoDB           *)
(* collections booking, owner and dog.                                     *)
(*                                                                         *)
(* Every Database method issues one store command (insert_one, update_one, *)
(* aggregate); an operation is one action: the request conversion and the  *)
(* Database method it feeds.  A Rust panic (a failed `expect`) unwinds the *)
(* calling task and leaves the collections as they were; it is recorded as *)
(* the status "Panic", as opposed to a returned Err value.  `last` is the  *)
(* outcome of the latest operation.                                        *)
(***************************************************************************)
EXTENDS Integers, Sequences, FiniteSets, TLC

\* ---------------------------------------------------------------- bounds
\* Number of distinct ObjectId values of the model (0 .. MaxOid-1).
MaxOid == 2
\* Total number of documents the three collections may hold together.
MaxDocs == 3
\* An ObjectId is 12 bytes, written as two hex characters per byte.
OidHexLen == 2 * 12

Oid == 0 .. (MaxOid - 1)

HexChars == <<"0", "1", "2", "3", "4", "5", "6", "7",
              "8", "9", "a", "b", "c", "d", "e", "f">>

\* The value of each hex character.
HexDigit == [c \in {HexChars[k] : k \in DOMAIN HexChars} |->
                (CHOOSE k \in DOMAIN HexChars : HexChars[k] = c) - 1]

IsHex(c) == c \in DOMAIN HexDigit

HexVal(c) == HexDigit[c]

\* The 24-character hex rendering of an ObjectId (ObjectId::to_hex).
ToHex(id) == [k \in 1 .. OidHexLen |-> IF k = OidHexLen THEN HexChars[id + 1] ELSE "0"]

\* Identifier strings a client may send: every well-formed one, and
\* malformed ones (too short, too long, a non-hex character).
MalformedIdStrings ==
    { SubSeq(ToHex(0), 1, OidHexLen - 1),
      ToHex(0) \o <<"0">>,
      [ToHex(0) EXCEPT ![1] = "g"] }

IdStrings == { ToHex(id) : id \in Oid } \cup MalformedIdStrings

RECURSIVE HexDecodeUpTo(_, _)
HexDecodeUpTo(s, k) ==
    IF k = 0 THEN 0 ELSE 16 * HexDecodeUpTo(s, k - 1) + HexVal(s[k])

HexDecode(s) == HexDecodeUpTo(s, Len(s))

\* ObjectId::parse_str / ObjectId::from_str: Ok(id) for exactly 24 hex
\* characters, Err otherwise.
ObjectIdParseStr(s) ==
    IF Len(s) = OidHexLen /\ \A k \in DOMAIN s : IsHex(s[k])
    THEN [ok |-> TRUE, id |-> HexDecode(s)]
    ELSE [ok |-> FALSE, id |-> 0]

\* ObjectIdParseStr tabulated over the strings the model sends.
ParseTable == [s \in IdStrings |-> ObjectIdParseStr(s)]

\* ObjectId::from_str / ObjectId::parse_str as the operations call it.
ObjectIdFromStr(s) == ParseTable[s]

\* ---------------------------------------------------------------- time
\* Instants are counted in milliseconds, the resolution of bson::DateTime.
\* A start_time string: a local wall-clock reading and the UTC offset it
\* carries, or no offset at all.
LocalTimes == {1}
Offsets == {0, 1}
TimeStrings == [local : LocalTimes, offset : Offsets] \cup [local : LocalTimes]

\* chrono::DateTime::parse_from_rfc3339: a timestamp without an offset is
\* rejected.
ParseFromRfc3339(s) ==
    IF "offset" \notin DOMAIN s
    THEN [ok |-> FALSE, local |-> 0, offset |-> 0]
    ELSE [ok |-> TRUE, local |-> s.local, offset |-> s.offset]

\* .with_timezone(&Utc).into(): the absolute instant of a local reading.
WithTimezoneUtc(dt) == dt.local - dt.offset

\* Readings of Utc::now().
ClockTimes == {0, 1, 2}

Durations == {30}

BooKingRequest == [owner : IdStrings, start_time : TimeStrings, duration_in_minutes : Durations]

\* ---------------------------------------------------------------- state
VARIABLES booking, owner, dog, last

vars == <<booking, owner, dog, last>>

NoValue == "none"

Reply(op, arg, status, value) == [op |-> op, arg |-> arg, status |-> status, value |-> value]

Init ==
    /\ booking = <<>>
    /\ owner = {}
    /\ dog = {}
    /\ last = Reply("init", NoValue, "Ok", NoValue)

DocCount == Len(booking) + Cardinality(owner) + Cardinality(dog)

\* ---------------------------------------------------------------- normalizer
\* ObjectId::new(): an id no stored booking carries.  Ids are opaque, so
\* the generated ones are numbered in the order the stored bookings got them.
ObjectIdNew(coll) == Len(coll)

\* impl TryFrom<BooKingRequest> for Booking.  The timestamp is parsed first
\* and its error is returned with `?`; then the struct is built, where
\* ObjectId::parse_str(owner).expect(..) panics on a malformed owner string.
TryFromBooKingRequest(item, coll) ==
    LET parsed == ParseFromRfc3339(item.start_time)
        chrono_datetime == WithTimezoneUtc(parsed)
        ownerId == ObjectIdFromStr(item.owner)
    IN  IF ~parsed.ok
        THEN [status |-> "Err", value |-> "Failed to parse start_time"]
        ELSE IF ~ownerId.ok
        THEN [status |-> "Panic", value |-> "Failed to parse owner"]
        ELSE [status |-> "Ok",
              value |-> [_id |-> ObjectIdNew(coll),
                         owner |-> ownerId.id,
                         start_time |-> chrono_datetime,
                         duration_in_minutes |-> item.duration_in_minutes,
                         cancelled |-> FALSE]]

\* ---------------------------------------------------------------- store commands
\* Collection::insert_one on the booking collection: the store refuses a
\* second document with the same _id.
BookingInsertOne(coll, doc) ==
    IF \E i \in DOMAIN coll : coll[i]._id = doc._id
    THEN [ok |-> FALSE, coll |-> coll]
    ELSE [ok |-> TRUE, coll |-> Append(coll, doc)]

\* Collection::insert_one on the owner and dog collections.
InsertOne(coll, doc) ==
    IF \E d \in coll : d._id = doc._id
    THEN [ok |-> FALSE, coll |-> coll]
    ELSE [ok |-> TRUE, coll |-> coll \cup {doc}]

\* A faulty update document: the flag is flipped instead of set.
ToggleCancelled(doc) == [doc EXCEPT !.cancelled = ~doc.cancelled]

\* The update document of cancel_booking: {"$set": {"cancelled": true}}.
SetCancelled(doc) == [doc EXCEPT !.cancelled = TRUE]

\* A faulty filter document: {} matches every booking.
CancelFilterAny(doc, id) == TRUE

\* The filter document of cancel_booking: {"_id": id}.
CancelFilter(doc, id) == doc._id = id

\* Collection::update_one: the first document matching the filter is
\* updated; matched_count and modified_count are reported.
UpdateOne(coll, id) ==
    LET hits == {i \in DOMAIN coll : CancelFilter(coll[i], id)}
        first == CHOOSE i \in hits : \A j \in hits : i <= j
    IN  IF hits = {}
        THEN [coll |-> coll, matched_count |-> 0, modified_count |-> 0]
        ELSE [coll |-> [coll EXCEPT ![first] = SetCancelled(coll[first])],
              matched_count |-> 1,
              modified_count |-> IF SetCancelled(coll[first]) = coll[first] THEN 0 ELSE 1]

\* A faulty return: a cancel that modified nothing is reported as an error.
CancelReturnRejectingNoop(result) ==
    IF result.modified_count = 0
    THEN [status |-> "Err", value |-> "NotFound"]
    ELSE [status |-> "Ok",
          value |-> [matched_count |-> result.matched_count,
                     modified_count |-> result.modified_count]]

\* What cancel_booking hands back once update_one has answered: Ok(result),
\* whatever the counts in it.
CancelReturn(result) ==
    [status |-> "Ok",
     value |-> [matched_count |-> result.matched_count,
                modified_count |-> result.modified_count]]

\* ---------------------------------------------------------------- operations
\* Owner::try_from(OwnerRequest {name, email, phone, address}): the request
\* carries no identifier; the new owner gets a generated one.  The contact
\* fields play no part in any operation and are left out.
OwnerTryFrom(coll) == [_id |-> Cardinality(coll)]

\* Dog::try_from(DogRequest {owner, name, age, breed}): the owner string is
\* parsed into an ObjectId and the new dog gets a generated identifier.
DogRequest == [owner : IdStrings]

DogTryFrom(request, coll) ==
    LET ownerId == ObjectIdFromStr(request.owner)
    IN  IF ~ownerId.ok
        THEN [status |-> "Err", value |-> "Failed to parse owner"]
        ELSE [status |-> "Ok", value |-> [_id |-> Cardinality(coll), owner |-> ownerId.id]]

\* POST /owner: Owner::try_from(..).expect(..), then Database::create_owner,
\* whose insert_one(..).ok().expect(..) panics when the store refuses.
CreateOwner ==
    LET o == OwnerTryFrom(owner)
        r == InsertOne(owner, o)
    IN  /\ r.ok => (DocCount < MaxDocs /\ o._id \in Oid)
        /\ owner' = r.coll
        /\ last' = Reply("create_owner", NoValue, IF r.ok THEN "Ok" ELSE "Panic", NoValue)
        /\ UNCHANGED <<booking, dog>>

\* POST /dog: Dog::try_from(..).expect(..), then Database::create_dog.
CreateDog(request) ==
    LET t == DogTryFrom(request, dog)
        r == InsertOne(dog, t.value)
    IN  /\ IF t.status # "Ok"
           THEN /\ dog' = dog
                /\ last' = Reply("create_dog", NoValue, "Panic", t.value)
           ELSE /\ r.ok => (DocCount < MaxDocs /\ t.value._id \in Oid)
                /\ dog' = r.coll
                /\ last' = Reply("create_dog", NoValue, IF r.ok THEN "Ok" ELSE "Panic", NoValue)
        /\ UNCHANGED <<booking, owner>>

\* Database::create_booking, applied to the outcome of the normalizer.
CreateBooking(req) ==
    LET t == TryFromBooKingRequest(req, booking)
        r == BookingInsertOne(booking, t.value)
    IN  /\ IF t.status # "Ok"
           THEN /\ booking' = booking
                /\ last' = Reply("create_booking", NoValue, t.status, t.value)
           ELSE /\ r.ok => (DocCount < MaxDocs /\ t.value._id \in Oid)
                /\ booking' = r.coll
                /\ last' = Reply("create_booking", NoValue,
                                 IF r.ok THEN "Ok" ELSE "Panic", t.value._id)
        /\ UNCHANGED <<owner, dog>>

\* Database::cancel_booking
CancelBooking(booking_id) ==
    LET id == ObjectIdFromStr(booking_id)
        result == UpdateOne(booking, id.id)
        ret == CancelReturn(result)
    IN  IF ~id.ok
        THEN /\ last' = Reply("cancel_booking", NoValue, "Panic", "Failed to parse booking id")
             /\ UNCHANGED <<booking, owner, dog>>
        ELSE /\ booking' = result.coll
             /\ last' = Reply("cancel_booking", NoValue, ret.status, ret.value)
             /\ UNCHANGED <<owner, dog>>

\* ---------------------------------------------------------------- query pipeline
\* A faulty $match without the "cancelled" condition.
MatchIgnoringCancelled(coll, as_of) ==
    SelectSeq(coll, LAMBDA b : b.start_time >= as_of)

\* A faulty $match with "$gt" in place of "$gte".
MatchStrictlyAfter(coll, as_of) ==
    SelectSeq(coll, LAMBDA b : b.cancelled = FALSE /\ b.start_time > as_of)

\* Stage 1, $match: {"cancelled": false, "start_time": {"$gte": now}}.
Match(coll, as_of) ==
    SelectSeq(coll, LAMBDA b : b.cancelled = FALSE /\ b.start_time >= as_of)

RECURSIVE SetToSeq(_)
SetToSeq(S) ==
    IF S = {} THEN <<>>
    ELSE LET x == CHOOSE y \in S : TRUE IN <<x>> \o SetToSeq(S \ {x})

\* Stage 2, $lookup from "owner", localField "owner", foreignField "_id",
\* as "owner": the owner field becomes the array of matching owner documents.
LookupOwner(docs, ownerColl) ==
    [i \in DOMAIN docs |->
        [docs[i] EXCEPT !.owner = SetToSeq({o \in ownerColl : o._id = docs[i].owner})]]

\* A faulty $unwind that keeps documents whose owner array is empty
\* (preserveNullAndEmptyArrays), with a null owner.
NullOwner == [_id |-> 0 - 1]

RECURSIVE UnwindPreserveEmpty(_)
UnwindPreserveEmpty(docs) ==
    IF docs = <<>> THEN <<>>
    ELSE LET d == Head(docs)
         IN  (IF d.owner = <<>>
              THEN <<[d EXCEPT !.owner = NullOwner]>>
              ELSE [k \in DOMAIN d.owner |-> [d EXCEPT !.owner = d.owner[k]]])
             \o UnwindPreserveEmpty(Tail(docs))

\* Stage 3, $unwind with path "$owner": one output document per element
\* of the owner array, none for an empty array.
RECURSIVE Unwind(_)
Unwind(docs) ==
    IF docs = <<>> THEN <<>>
    ELSE LET d == Head(docs)
         IN  [k \in DOMAIN d.owner |-> [d EXCEPT !.owner = d.owner[k]]] \o Unwind(Tail(docs))

\* A faulty dog $lookup with foreignField "_id" in place of "owner".
LookupDogById(docs, dogColl) ==
    [i \in DOMAIN docs |->
        docs[i] @@ [dogs |-> {d \in dogColl : d._id = docs[i].owner._id}]]

\* Stage 4, $lookup from "dog", localField "owner._id", foreignField "owner",
\* as "dogs".
LookupDog(docs, dogColl) ==
    [i \in DOMAIN docs |->
        docs[i] @@ [dogs |-> {d \in dogColl : d.owner = docs[i].owner._id}]]

\* The aggregation of get_bookings.
Aggregate(coll, ownerColl, dogColl, as_of) ==
    LookupDog(Unwind(LookupOwner(Match(coll, as_of), ownerColl)), dogColl)

\* from_document: the FullBooking built from one pipeline document.
FromDocument(doc) ==
    [_id |-> doc._id,
     owner |-> doc.owner,
     dogs |-> doc.dogs,
     start_time |-> doc.start_time,
     duration_in_minutes |-> doc.duration_in_minutes,
     cancelled |-> doc.cancelled]

\* A faulty cursor loop that drops the first document of the stream.
CollectSkippingFirst(results) ==
    [i \in 1 .. (Len(results) - 1) |-> FromDocument(results[i + 1])]

\* The cursor loop of get_bookings: every document is converted and pushed.
CollectBookings(results) == [i \in DOMAIN results |-> FromDocument(results[i])]

\* Database::get_bookings; `now` is the reading of Utc::now().
GetBookings(now) ==
    LET as_of == now
        results == Aggregate(booking, owner, dog, as_of)
    IN  /\ last' = Reply("get_bookings", as_of, "Ok", CollectBookings(results))
        /\ UNCHANGED <<booking, owner, dog>>

Next ==
    \/ CreateOwner
    \/ \E request \in DogRequest : CreateDog(request)
    \/ \E req \in BooKingRequest : CreateBooking(req)
    \/ \E s \in IdStrings : CancelBooking(s)
    \/ \E now \in ClockTimes : GetBookings(now)

Spec == Init /\ [][Next]_vars

\* ---------------------------------------------------------------- properties
Queried == last.op = "get_bookings"

ResultIds(res) == {res[k]._id : k \in DOMAIN res}

Resolvable(b) == \E o \in owner : o._id = b.owner

DogsOf(ownerId) == {d \in dog : d.owner = ownerId}

Qualifies(b, as_of) == ~b.cancelled /\ b.start_time >= as_of /\ Resolvable(b)

MillisPerMinute == 60 * 1000

\* C1: once a booking's cancelled flag is true, no step of any operation
\* makes it false again (nor removes the booking): Cancelled is terminal.
C1_CancelledIsTerminal ==
    [][\A i \in DOMAIN booking :
          booking[i].cancelled =>
              /\ \E j \in DOMAIN booking' : booking'[j]._id = booking[i]._id
              /\ \A j \in DOMAIN booking' :
                    booking'[j]._id = booking[i]._id => booking'[j].cancelled]_vars

\* A cancelled booking is in the store and a later create has succeeded.
C1_Witness ==
    /\ last.op = "create_booking"
    /\ last.status = "Ok"
    /\ \E i \in DOMAIN booking : booking[i].cancelled

\* C2: a query that runs after a booking was cancelled returns no
\* FullBooking for it, whatever its start_time.
C2_CancelledNeverReturned ==
    Queried =>
        \A i \in DOMAIN booking :
            booking[i].cancelled => booking[i]._id \notin ResultIds(last.value)

\* A query has run over a cancelled booking that is in the future and whose
\* owner resolves: only the cancellation keeps it out.
C2_Witness ==
    /\ Queried
    /\ \E i \in DOMAIN booking :
          /\ booking[i].cancelled
          /\ booking[i].start_time >= last.arg
          /\ Resolvable(booking[i])

\* C3: the time filter is inclusive: an active booking with a resolvable
\* owner and start_time = as_of is returned, one with start_time one
\* instant before as_of is not.
C3_InclusiveLowerBound ==
    Queried =>
        \A i \in DOMAIN booking :
            /\ (~booking[i].cancelled /\ Resolvable(booking[i])
                  /\ booking[i].start_time = last.arg)
                    => booking[i]._id \in ResultIds(last.value)
            /\ booking[i].start_time = last.arg - 1
                    => booking[i]._id \notin ResultIds(last.value)

\* A query has run with one active, resolvable booking starting exactly at
\* as_of and another one instant earlier, still within its duration.
C3_Witness ==
    /\ Queried
    /\ \E i, j \in DOMAIN booking :
          /\ ~booking[i].cancelled /\ Resolvable(booking[i])
          /\ booking[i].start_time = last.arg
          /\ ~booking[j].cancelled /\ Resolvable(booking[j])
          /\ booking[j].start_time = last.arg - 1
          /\ booking[j].start_time + booking[j].duration_in_minutes * MillisPerMinute > last.arg

\* C4: a booking whose owner reference matches no owner is absent from the
\* result; the query succeeds and still returns every qualifying booking.
C4_UnresolvedOwnerDropped ==
    Queried =>
        /\ last.status = "Ok"
        /\ \A i \in DOMAIN booking :
              /\ ~Resolvable(booking[i]) => booking[i]._id \notin ResultIds(last.value)
              /\ Qualifies(booking[i], last.arg) => booking[i]._id \in ResultIds(last.value)

\* A query has run over an active future booking without an owner record
\* and another booking that qualifies.
C4_Witness ==
    /\ Queried
    /\ \E i, j \in DOMAIN booking :
          /\ ~booking[i].cancelled
          /\ booking[i].start_time >= last.arg
          /\ ~Resolvable(booking[i])
          /\ Qualifies(booking[j], last.arg)

\* C5: the dog set of every returned FullBooking is exactly the set of
\* dogs whose owner reference is the resolved owner's id, and a qualifying
\* booking whose owner has no dog is returned with an empty dog set.
C5_DogSetExact ==
    Queried =>
        /\ \A k \in DOMAIN last.value :
              last.value[k].dogs = DogsOf(last.value[k].owner._id)
        /\ \A i \in DOMAIN booking :
              (Qualifies(booking[i], last.arg) /\ DogsOf(booking[i].owner) = {}) =>
                  \E k \in DOMAIN last.value :
                      /\ last.value[k]._id = booking[i]._id
                      /\ last.value[k].dogs = {}

\* A query has returned a booking with an empty dog set while the dog
\* collection holds a dog of somebody else.
C5_Witness ==
    /\ Queried
    /\ dog # {}
    /\ \E k \in DOMAIN last.value : last.value[k].dogs = {}

\* C6: the result holds exactly one FullBooking per qualifying booking
\* (active, start_time >= as_of, owner resolvable) and nothing else, each
\* composed of the stored booking, its owner record and the owner's dogs.
C6_ExactlyTheQualifying ==
    Queried =>
        /\ ResultIds(last.value) =
              {booking[i]._id : i \in {n \in DOMAIN booking : Qualifies(booking[n], last.arg)}}
        /\ \A k, l \in DOMAIN last.value :
              last.value[k]._id = last.value[l]._id => k = l
        /\ \A k \in DOMAIN last.value :
              \E i \in DOMAIN booking :
                  /\ last.value[k]._id = booking[i]._id
                  /\ last.value[k].start_time = booking[i].start_time
                  /\ last.value[k].duration_in_minutes = booking[i].duration_in_minutes
                  /\ last.value[k].cancelled = FALSE
                  /\ last.value[k].owner \in owner
                  /\ last.value[k].owner._id = booking[i].owner
                  /\ last.value[k].dogs = DogsOf(booking[i].owner)

\* A query over two bookings has returned exactly one of them.
C6_Witness ==
    /\ Queried
    /\ Len(booking) = 2
    /\ Len(last.value) = 1

\* C7: cancelling an already cancelled booking returns success and leaves
\* the booking collection as it was.
C7_SecondCancelSucceeds ==
    [][\A s \in IdStrings :
          (/\ last'.op = "cancel_booking"
           /\ CancelBooking(s)
           /\ ObjectIdFromStr(s).ok
           /\ \E i \in DOMAIN booking :
                 booking[i]._id = ObjectIdFromStr(s).id /\ booking[i].cancelled)
          => (last'.status = "Ok" /\ booking' = booking)]_vars

\* A cancel has matched a booking and modified nothing: a second cancel.
C7_Witness ==
    /\ last.op = "cancel_booking"
    /\ last.status = "Ok"
    /\ last.value.matched_count = 1
    /\ last.value.modified_count = 0

\* C8: cancel fails with NotFound, as a returned error and with no booking
\* modified, when the id does not parse or matches no booking; it reports
\* success only when a matching booking exists.
C8_CancelNotFound ==
    [][\A s \in IdStrings :
          CancelBooking(s) =>
              IF ObjectIdFromStr(s).ok
                 /\ \E i \in DOMAIN booking : booking[i]._id = ObjectIdFromStr(s).id
              THEN last'.status = "Ok"
              ELSE /\ last'.status = "Err"
                   /\ last'.value = "NotFound"
                   /\ booking' = booking]_vars

\* C9: create with a malformed owner string completes with the error
\* InvalidReference returned to the caller, and persists no booking.
C9_InvalidOwnerIsError ==
    [][\A req \in BooKingRequest :
          (CreateBooking(req) /\ ~ObjectIdParseStr(req.owner).ok)
          => (/\ last'.status = "Err"
              /\ last'.value = "InvalidReference"
              /\ booking' = booking)]_vars

\* C10: no step removes a booking or changes its id, owner reference,
\* start_time or duration; a cancel step changes nothing but the cancelled
\* flag of the booking with the given id.
C10_AppendOnlyFrame ==
    [][/\ \A i \in DOMAIN booking :
             /\ i \in DOMAIN booking'
             /\ booking'[i]._id = booking[i]._id
             /\ booking'[i].owner = booking[i].owner
             /\ booking'[i].start_time = booking[i].start_time
             /\ booking'[i].duration_in_minutes = booking[i].duration_in_minutes
       /\ \A s \in IdStrings :
             (last'.op = "cancel_booking" /\ CancelBooking(s)) =>
                 /\ owner' = owner
                 /\ dog' = dog
                 /\ DOMAIN booking' = DOMAIN booking
                 /\ \A i \in DOMAIN booking :
                       booking'[i] # booking[i] =>
                           /\ ObjectIdFromStr(s).ok
                           /\ booking[i]._id = ObjectIdFromStr(s).id
                           /\ booking'[i] = [booking[i] EXCEPT !.cancelled = TRUE]]_vars

\* A cancel has flipped one booking's flag next to another booking and
\* an owner or dog record.
C10_Witness ==
    /\ last.op = "cancel_booking"
    /\ last.status = "Ok"
    /\ last.value.modified_count = 1
    /\ Len(booking) = 2
    /\ owner \cup dog # {}

====
